---- MODULE Spec2Model ----
(***************************************************************************)
(* Model of scripts/ci/timeline.py, the CI timeline visualizer.           *)
(*                                                                         *)
(* Text is modelled as a sequence of one-character strings, so that the    *)
(* length of a rendered string is Len and formatting is a real conversion. *)
(* Durations and timestamps are whole seconds (the provider's timestamps   *)
(* have one-second resolution), so Python's float arithmetic on them is    *)
(* modelled by exact integer arithmetic with int() truncating toward zero. *)
(* An Optional value is a sequence of length at most one: None is << >>.   *)
(***************************************************************************)
EXTENDS Integers, Sequences, FiniteSets, TLC

VARIABLES
    pc,         \* position of the running call or of main()
    args,       \* the arguments of the call under way, or main()'s command line
    ret,        \* the value the call returned (text: a sequence of characters)
    raised,     \* the exception the call raised, "none" when it returned
    local,      \* main()'s local variables
    fetches,    \* the gh api invocations made so far, with their outcomes
    stdout,     \* what the process has written to standard output
    stderr,     \* what the process has written to standard error
    exit_code   \* the process's exit status, None while it runs

vars == <<pc, args, ret, raised, local, fetches, stdout, stderr, exit_code>>

process == <<local, fetches, stdout, stderr, exit_code>>

-----------------------------------------------------------------------------
(* Python built-ins the code relies on *)

None == << >>

Some(x) == <<x>>

\* truthiness of an Optional[datetime]: a datetime is always truthy
IsSet(opt) == opt # None

Min(a, b) == IF a <= b THEN a ELSE b

Max(a, b) == IF a >= b THEN a ELSE b

Abs(x) == IF x < 0 THEN -x ELSE x

\* int(n / d) for whole n, d with d # 0: float division, then truncation toward zero
TruncDiv(n, d) ==
    IF (n >= 0) = (d > 0) THEN Abs(n) \div Abs(d) ELSE -(Abs(n) \div Abs(d))

\* c * k for a one-character string c: the empty string when k <= 0
Repeat(c, k) == [i \in 1..Max(k, 0) |-> c]

\* s.ljust(width): pads with blanks on the right, never truncates
ljust(s, width) == s \o Repeat(" ", width - Len(s))

DigitChars == <<"0", "1", "2", "3", "4", "5", "6", "7", "8", "9">>

RECURSIVE StrNat(_)
StrNat(n) ==
    IF n < 10 THEN <<DigitChars[n + 1]>>
    ELSE StrNat(n \div 10) \o <<DigitChars[(n % 10) + 1]>>

\* f"{n}" for an int n
Str(n) == IF n < 0 THEN <<"-">> \o StrNat(-n) ELSE StrNat(n)

\* a renderer is called on its own: no process state is involved
NoProcess ==
    /\ local = << >>
    /\ fetches = << >>
    /\ stdout = << >>
    /\ stderr = << >>
    /\ exit_code = None

-----------------------------------------------------------------------------
(* format_duration *)

format_duration_rounding(seconds) ==
    IF seconds < 60 THEN Str(seconds) \o <<"s">>
    ELSE IF seconds < 3600
        THEN Str((seconds + 30) \div 60) \o <<"m">> \o Str(seconds % 60) \o <<"s">>
        ELSE Str(seconds \div 3600) \o <<"h">> \o Str(((seconds % 3600) + 30) \div 60) \o <<"m">>

format_duration(seconds) ==
    IF seconds < 60 THEN Str(seconds) \o <<"s">>
    ELSE IF seconds < 3600
        THEN LET mins == seconds \div 60
                 secs == seconds % 60
             IN  Str(mins) \o <<"m">> \o Str(secs) \o <<"s">>
        ELSE LET hours == seconds \div 3600
                 mins == (seconds % 3600) \div 60
             IN  Str(hours) \o <<"h">> \o Str(mins) \o <<"m">>

-----------------------------------------------------------------------------
(* Specification of calls of format_duration on whole seconds *)

MaxSeconds == 7300

InitFmt ==
    /\ pc = "call"
    /\ \E s \in 0..MaxSeconds : args = [fn |-> "format_duration", seconds |-> s]
    /\ ret = << >>
    /\ raised = "none"
    /\ NoProcess

CallFormatDuration ==
    /\ pc = "call"
    /\ args.fn = "format_duration"
    /\ ret' = format_duration(args.seconds)
    /\ pc' = "done"
    /\ UNCHANGED <<args, raised, process>>

NextFmt == CallFormatDuration

SpecFmt == InitFmt /\ [][NextFmt]_vars

-----------------------------------------------------------------------------
(* Reading a rendered number back *)

IsDigit(c) == \E d \in 1..10 : DigitChars[d] = c

DigitVal(c) == (CHOOSE d \in 1..10 : DigitChars[d] = c) - 1

RECURSIVE NatVal(_)
NatVal(s) ==
    IF Len(s) = 0 THEN 0
    ELSE 10 * NatVal(SubSeq(s, 1, Len(s) - 1)) + DigitVal(s[Len(s)])

\* s is the decimal numeral of the natural number n, without padding
Numeral(s, n) ==
    /\ Len(s) >= 1
    /\ \A i \in 1..Len(s) : IsDigit(s[i])
    /\ Len(s) > 1 => s[1] # "0"
    /\ NatVal(s) = n

\* s is <a><u><b><v> for the numerals of a and b and the unit letters u and v
TwoPart(s, a, u, b, v) ==
    \E i \in 2..(Len(s) - 2) :
        /\ s[i] = u
        /\ s[Len(s)] = v
        /\ Numeral(SubSeq(s, 1, i - 1), a)
        /\ Numeral(SubSeq(s, i + 1, Len(s) - 1), b)

FmtDone == pc = "done" /\ args.fn = "format_duration"

\* C3: format_duration(s) of a non-negative whole s is "<s>s" below 60,
\* "<s div 60>m<s mod 60>s" from 60 to 3599 and "<s div 3600>h<(s mod 3600) div 60>m"
\* from 3600 on, all components truncated; 0 -> "0s", 59 -> "59s", 60 -> "1m0s",
\* 3599 -> "59m59s", 3600 -> "1h0m".
C3_FormatDuration ==
    FmtDone =>
        LET s == args.seconds IN
        /\ s < 60 =>
             /\ Len(ret) >= 2
             /\ ret[Len(ret)] = "s"
             /\ Numeral(SubSeq(ret, 1, Len(ret) - 1), s)
        /\ (60 <= s /\ s < 3600) => TwoPart(ret, s \div 60, "m", s % 60, "s")
        /\ s >= 3600 => TwoPart(ret, s \div 3600, "h", (s % 3600) \div 60, "m")
        /\ s = 0 => ret = <<"0", "s">>
        /\ s = 59 => ret = <<"5", "9", "s">>
        /\ s = 60 => ret = <<"1", "m", "0", "s">>
        /\ s = 3599 => ret = <<"5", "9", "m", "5", "9", "s">>
        /\ s = 3600 => ret = <<"1", "h", "0", "m">>

\* a call in the hours range whose minutes component has a remainder above 30 seconds
C3_Witness == FmtDone /\ args.seconds = 7199 /\ ret = <<"1", "h", "5", "9", "m">>

-----------------------------------------------------------------------------
(* render_job_bar *)

QUEUED == "░"

RUNNING == "█"

\* the same bar cut to the width: what a renderer that enforced the width would return
render_job_bar_clipped(queue_secs, run_secs, max_secs, width) ==
    IF max_secs = 0 THEN Repeat(" ", width)
    ELSE LET total == queue_secs + run_secs
             total_chars == Min(width, Max(0, TruncDiv(total * width, max_secs)))
             queue_chars == Min(total_chars, Max(0, TruncDiv(queue_secs * width, max_secs)))
             run_chars == total_chars - queue_chars
             bar == Repeat(QUEUED, queue_chars) \o Repeat(RUNNING, run_chars)
         IN  ljust(bar, width)

\* int((x / max_secs) * width) is modelled as the truncated exact quotient
render_job_bar(queue_secs, run_secs, max_secs, width) ==
    IF max_secs = 0 THEN Repeat(" ", width)
    ELSE LET total == queue_secs + run_secs
             total_chars == TruncDiv(total * width, max_secs)
             queue_chars == TruncDiv(queue_secs * width, max_secs)
             run_chars == total_chars - queue_chars
             bar == Repeat(QUEUED, queue_chars) \o Repeat(RUNNING, run_chars)
         IN  ljust(bar, width)

-----------------------------------------------------------------------------
(* Specification of calls of render_job_bar *)

MaxBarSecs == 3

MaxBarWidth == 3

InitBar ==
    /\ pc = "call"
    /\ \E q \in (-MaxBarSecs)..MaxBarSecs, r \in (-MaxBarSecs)..MaxBarSecs,
          m \in 0..MaxBarSecs, w \in 0..MaxBarWidth :
            args = [fn |-> "render_job_bar", queue_secs |-> q, run_secs |-> r,
                    max_secs |-> m, width |-> w]
    /\ ret = << >>
    /\ raised = "none"
    /\ NoProcess

CallRenderJobBar ==
    /\ pc = "call"
    /\ args.fn = "render_job_bar"
    /\ ret' = render_job_bar(args.queue_secs, args.run_secs, args.max_secs, args.width)
    /\ pc' = "done"
    /\ UNCHANGED <<args, raised, process>>

NextBar == CallRenderJobBar

SpecBar == InitBar /\ [][NextBar]_vars

\* the number of positions of the text s that hold the character c
Count(s, c) == Cardinality({i \in 1..Len(s) : s[i] = c})

BarDone == pc = "done" /\ args.fn = "render_job_bar"

\* C1: render_job_bar returns a string of length exactly width for any inputs
\* (max_secs = 0, queue_secs = run_secs = 0, queue_secs + run_secs > max_secs,
\* negative queue_secs), and neither the number of queued glyphs nor the number
\* of running glyphs exceeds width.
C1_BarLength ==
    BarDone =>
        /\ Len(ret) = args.width
        /\ Count(ret, QUEUED) <= args.width
        /\ Count(ret, RUNNING) <= args.width

\* the part of C1 the code keeps: the scale is positive, the queue time is not
\* negative and the job's total does not exceed the scale
C1_BarLengthInScale ==
    (BarDone /\ args.max_secs > 0 /\ args.queue_secs >= 0 /\ args.run_secs >= 0
        /\ args.queue_secs + args.run_secs <= args.max_secs) =>
        /\ Len(ret) = args.width
        /\ Count(ret, QUEUED) + Count(ret, RUNNING) <= args.width

\* the code keeps the width when the scale is 0
C1_BarBlankAtZeroScale ==
    (BarDone /\ args.max_secs = 0) => ret = Repeat(" ", args.width)

-----------------------------------------------------------------------------
(* Job and its derived durations *)

\* a Job: status and conclusion are read by no renderer and are left out
Job(name, created_at, started_at, completed_at) ==
    [name |-> name, created_at |-> created_at,
     started_at |-> started_at, completed_at |-> completed_at]

queue_duration_seconds(j) ==
    IF IsSet(j.started_at) THEN j.started_at[1] - j.created_at ELSE 0

run_duration_seconds(j) ==
    IF IsSet(j.started_at) /\ IsSet(j.completed_at)
        THEN j.completed_at[1] - j.started_at[1] ELSE 0

total_duration_seconds(j) ==
    IF IsSet(j.completed_at) THEN j.completed_at[1] - j.created_at ELSE 0

\* min(...) and max(...) over a non-empty sequence of whole numbers
MinOf(xs) == CHOOSE x \in {xs[i] : i \in 1..Len(xs)} : \A k \in 1..Len(xs) : x <= xs[k]

MaxOf(xs) == CHOOSE x \in {xs[i] : i \in 1..Len(xs)} : \A k \in 1..Len(xs) : x >= xs[k]

RECURSIVE SumOf(_)
SumOf(xs) == IF Len(xs) = 0 THEN 0 ELSE xs[1] + SumOf(Tail(xs))

-----------------------------------------------------------------------------
(* render_sparkline *)

SPARK_BLOCKS == <<" ", "▁", "▂", "▃", "▄", "▅", "▆", "▇", "█">>

HasTiming(j) == IsSet(j.started_at) /\ IsSet(j.completed_at)

Created(j) == j.created_at

Started(j) == j.started_at[1]

Completed(j) == j.completed_at[1]

Returned(text) == [val |-> text, exc |-> "none"]

Raised(exception) == [val |-> << >>, exc |-> exception]

\* The bucket bounds min_time + i * (total_seconds / width) are fractions: the
\* comparisons are made exactly, with both sides multiplied by width.
\* int((running_count / max_parallelism) * 8) is exact in floating point, since
\* a multiple of 1/8 is representable and the product by 8 is exact.
sparkline_level(running_count, max_parallelism) ==
    IF running_count = 0 THEN 0
    ELSE Min(8, Max(1, TruncDiv(running_count * 8, max_parallelism)))

\* the overlap test with the bucket's bounds included
sparkline_running_count_inclusive(completed_jobs, min_time, total_seconds, width, i) ==
    LET bucket_start_w == min_time * width + i * total_seconds
        bucket_end_w == bucket_start_w + total_seconds
        running(j) == /\ Started(j) * width <= bucket_end_w
                      /\ Completed(j) * width >= bucket_start_w
    IN  Len(SelectSeq(completed_jobs, running))

sparkline_running_count(completed_jobs, min_time, total_seconds, width, i) ==
    LET bucket_start_w == min_time * width + i * total_seconds
        bucket_end_w == bucket_start_w + total_seconds
        running(j) == /\ Started(j) * width < bucket_end_w
                      /\ Completed(j) * width > bucket_start_w
    IN  Len(SelectSeq(completed_jobs, running))

render_sparkline(jobs, width) ==
    IF jobs = << >> THEN Returned(Repeat(" ", width))
    ELSE LET completed_jobs == SelectSeq(jobs, HasTiming) IN
         IF completed_jobs = << >> THEN Returned(Repeat(" ", width))
         ELSE LET min_time == MinOf([k \in 1..Len(completed_jobs) |-> Created(completed_jobs[k])])
                  max_time == MaxOf([k \in 1..Len(completed_jobs) |-> Completed(completed_jobs[k])])
                  total_seconds == max_time - min_time
              IN  IF total_seconds = 0 THEN Returned(Repeat("█", width))
                  ELSE IF width = 0 THEN Raised("ZeroDivisionError")
                  ELSE LET max_parallelism == Len(completed_jobs)
                           glyph(i) ==
                               SPARK_BLOCKS[sparkline_level(
                                   sparkline_running_count(completed_jobs, min_time,
                                                           total_seconds, width, i),
                                   max_parallelism) + 1]
                       IN  Returned([k \in 1..width |-> glyph(k - 1)])

-----------------------------------------------------------------------------
(* Specification of calls of render_sparkline *)

MaxSparkJobs == 2

MaxSparkWidth == 3

Times == 0..2

\* every job with timing over the timestamps, monotonic or not, and one job for
\* each way of lacking timing
SparkJobs ==
    {Job(<<"j">>, c, Some(s), Some(e)) : c \in Times, s \in Times, e \in Times}
        \cup {Job(<<"j">>, 0, None, None), Job(<<"j">>, 0, None, Some(1)),
              Job(<<"j">>, 0, Some(1), None)}

SeqsUpTo(S, n) == UNION {[1..k -> S] : k \in 0..n}

InitSpark ==
    /\ pc = "call"
    /\ \E js \in SeqsUpTo(SparkJobs, MaxSparkJobs), w \in 0..MaxSparkWidth :
          args = [fn |-> "render_sparkline", jobs |-> js, width |-> w]
    /\ ret = << >>
    /\ raised = "none"
    /\ NoProcess

CallRenderSparkline ==
    /\ pc = "call"
    /\ args.fn = "render_sparkline"
    /\ LET r == render_sparkline(args.jobs, args.width)
       IN  ret' = r.val /\ raised' = r.exc
    /\ pc' = "done"
    /\ UNCHANGED <<args, process>>

NextSpark == CallRenderSparkline

SpecSpark == InitSpark /\ [][NextSpark]_vars

SparkDone == pc = "done" /\ args.fn = "render_sparkline"

\* the indices of the jobs that have both started_at and completed_at
Eligible(jobs) ==
    {k \in 1..Len(jobs) : jobs[k].started_at # << >> /\ jobs[k].completed_at # << >>}

\* max(completed_at) - min(created_at) over the eligible jobs
Span(jobs) ==
    LET E == Eligible(jobs)
        hi == CHOOSE k \in E : \A m \in E : jobs[m].completed_at[1] <= jobs[k].completed_at[1]
        lo == CHOOSE k \in E : \A m \in E : jobs[m].created_at >= jobs[k].created_at
    IN  jobs[hi].completed_at[1] - jobs[lo].created_at

\* C2: render_sparkline returns exactly width glyphs for every job list and every
\* width >= 0; width blanks when no job has both started_at and completed_at, and
\* width copies of the highest glyph when the span over the eligible jobs is 0.
C2_SparklineWidth ==
    SparkDone =>
        /\ raised = "none"
        /\ Len(ret) = args.width
        /\ \A i \in 1..Len(ret) : \E l \in 1..9 : ret[i] = SPARK_BLOCKS[l]
        /\ Eligible(args.jobs) = {} => ret = [i \in 1..args.width |-> " "]
        /\ (Eligible(args.jobs) # {} /\ Span(args.jobs) = 0) =>
               ret = [i \in 1..args.width |-> "█"]

\* the part of C2 the code keeps: every width of at least 1
C2_SparklineWidthPositive ==
    (SparkDone /\ args.width >= 1) => C2_SparklineWidth

-----------------------------------------------------------------------------
(* The sparkline's buckets, read back from the output *)

\* the level of a glyph: its index in SPARK_BLOCKS, from 0
LevelOf(c) == (CHOOSE l \in 1..9 : SPARK_BLOCKS[l] = c) - 1

\* the eligible jobs that overlap bucket i (from 0) of the width equal buckets of
\* the span: started_at < bucket_end and completed_at > bucket_start, where
\* bucket_start = lo + i * span / width and bucket_end = lo + (i + 1) * span / width
Overlapping(jobs, width, i) ==
    LET E == Eligible(jobs)
        lo == CHOOSE t \in {jobs[k].created_at : k \in E} :
                  \A k \in E : t <= jobs[k].created_at
        span == Span(jobs)
    IN  {k \in E : /\ width * jobs[k].started_at[1] < width * lo + (i + 1) * span
                   /\ width * jobs[k].completed_at[1] > width * lo + i * span}

SparkBucketed ==
    /\ SparkDone
    /\ raised = "none"
    /\ Eligible(args.jobs) # {}
    /\ Span(args.jobs) # 0

\* C10: with a non-zero span and n eligible jobs, bucket i's glyph is blank iff
\* no eligible job overlaps the bucket, and otherwise has level
\* min(8, max(1, floor(count * 8 / n))): in 1..8, non-decreasing in count, and 8
\* exactly when count = n.
C10_SparklineLevels ==
    SparkBucketed =>
        LET n == Cardinality(Eligible(args.jobs))
            count(i) == Cardinality(Overlapping(args.jobs, args.width, i))
            level(i) == LevelOf(ret[i + 1])
            B == 0..(args.width - 1)
        IN  /\ Len(ret) = args.width
            /\ \A i \in B :
                 /\ (level(i) = 0) <=> (count(i) = 0)
                 /\ count(i) > 0 =>
                      /\ level(i) = Min(8, Max(1, (count(i) * 8) \div n))
                      /\ level(i) \in 1..8
                      /\ (level(i) = 8) <=> (count(i) = n)
            /\ \A i \in B, k \in B : count(i) <= count(k) => level(i) <= level(k)

\* two eligible jobs over three buckets: an empty bucket, a bucket both overlap
\* (one of them of zero length inside it) and a bucket only one overlaps
C10_Witness ==
    /\ SparkBucketed
    /\ args.width = 3
    /\ Cardinality(Eligible(args.jobs)) = 2
    /\ Cardinality(Overlapping(args.jobs, 3, 0)) = 0
    /\ Cardinality(Overlapping(args.jobs, 3, 1)) = 2
    /\ Cardinality(Overlapping(args.jobs, 3, 2)) = 1
    /\ ret = <<" ", "█", "▄">>

-----------------------------------------------------------------------------
(* Text operations of Python used on job names *)

\* the characters of the names, in code point order
Alphabet ==
    <<" ", "(", ")", ",", "-", ".", "/",
      "0", "1", "2", "3", "4", "5", "6", "7", "8", "9",
      "a", "b", "c", "d", "e", "f", "g", "h", "i", "j", "k", "l", "m",
      "n", "o", "p", "q", "r", "s", "t", "u", "v", "w", "x", "y", "z">>

Ord(c) == CHOOSE k \in 1..Len(Alphabet) : Alphabet[k] = c

\* a < b for str: the first differing character decides, a proper prefix is smaller
RECURSIVE StrLess(_, _)
StrLess(a, b) ==
    IF Len(b) = 0 THEN FALSE
    ELSE IF Len(a) = 0 THEN TRUE
    ELSE IF a[1] = b[1] THEN StrLess(Tail(a), Tail(b))
    ELSE Ord(a[1]) < Ord(b[1])

\* sorted(S, reverse=True)
RECURSIVE sorted_descending(_)
sorted_descending(S) ==
    IF S = {} THEN << >>
    ELSE LET greatest == CHOOSE a \in S : \A b \in S \ {a} : StrLess(b, a)
         IN  <<greatest>> \o sorted_descending(S \ {greatest})

\* sorted(S) for a set S of str
RECURSIVE sorted(_)
sorted(S) ==
    IF S = {} THEN << >>
    ELSE LET least == CHOOSE a \in S : \A b \in S \ {a} : StrLess(a, b)
         IN  <<least>> \o sorted(S \ {least})

\* s[:n]
Prefix(s, n) == SubSeq(s, 1, Min(Len(s), n))

StartsWith(s, old) ==
    /\ Len(s) >= Len(old)
    /\ s[1] = old[1]
    /\ SubSeq(s, 1, Len(old)) = old

\* s.replace(old, ""): every occurrence, found left to right, is removed
RECURSIVE remove(_, _)
remove(s, old) ==
    IF Len(s) = 0 THEN s
    ELSE IF StartsWith(s, old) THEN remove(SubSeq(s, Len(old) + 1, Len(s)), old)
    ELSE <<s[1]>> \o remove(Tail(s), old)

\* s.split("/")[-1]: what follows the last "/"
RECURSIVE last_segment(_)
last_segment(s) ==
    IF \E i \in 1..Len(s) : s[i] = "/"
        THEN last_segment(SubSeq(s, (CHOOSE i \in 1..Len(s) : s[i] = "/") + 1, Len(s)))
        ELSE s

\* s.strip(): blanks removed at both ends
RECURSIVE strip(_)
strip(s) ==
    IF Len(s) > 0 /\ s[1] = " " THEN strip(Tail(s))
    ELSE IF Len(s) > 0 /\ s[Len(s)] = " " THEN strip(SubSeq(s, 1, Len(s) - 1))
    ELSE s

-----------------------------------------------------------------------------
(* normalize_job_name *)

WRAPPER_OPEN == <<"b", "u", "i", "l", "d", " ", "(">>

WRAPPER_CLOSE == <<")">>

RUNNER_LABELS ==
    <<<<"u", "b", "u", "n", "t", "u", "-", "2", "2", ".", "0", "4", ",", " ">>,
      <<"u", "b", "u", "n", "t", "u", "-", "2", "4", ".", "0", "4", ",", " ">>,
      <<"m", "a", "c", "o", "s", "-", "1", "4", ",", " ">>,
      <<"m", "a", "c", "o", "s", "-", "1", "5", ",", " ">>,
      <<"w", "i", "n", "d", "o", "w", "s", "-", "2", "0", "2", "2", ",", " ">>,
      <<"w", "i", "n", "d", "o", "w", "s", "-", "2", "0", "2", "5", ",", " ">>>>

RECURSIVE remove_all(_, _)
remove_all(s, olds) ==
    IF Len(olds) = 0 THEN s ELSE remove_all(remove(s, olds[1]), Tail(olds))

normalize_job_name(name) ==
    LET short == strip(last_segment(name))
        unwrapped == remove(remove(short, WRAPPER_OPEN), WRAPPER_CLOSE)
    IN  remove_all(unwrapped, RUNNER_LABELS)

-----------------------------------------------------------------------------
(* render_unified_diff *)

\* A WorkflowRun: the renderer reads its id and its jobs
WorkflowRun(id, jobs) == [id |-> id, jobs |-> jobs]

\* An output line: the template it is an instance of (kind) and the texts
\* substituted into the template, in order (cells). Column padding is left out.
Line(kind, cells) == [kind |-> kind, cells |-> cells]

MISSING == <<"(", "m", "i", "s", "s", "i", "n", "g", ")">>

SAME == <<"~", "s", "a", "m", "e">>

bar_width == 16

name_width == 28

\* d[k] = v on a dict
dict_put(d, k, v) == [n \in (DOMAIN d) \cup {k} |-> IF n = k THEN v ELSE d[n]]

\* the mapping with the first job of a name kept
RECURSIVE jobs_by_name_first(_)
jobs_by_name_first(jobs) ==
    IF Len(jobs) = 0 THEN << >>
    ELSE LET earlier == jobs_by_name_first(SubSeq(jobs, 1, Len(jobs) - 1))
             j == jobs[Len(jobs)]
         IN  IF IsSet(j.completed_at) /\ normalize_job_name(j.name) \notin DOMAIN earlier
                 THEN dict_put(earlier, normalize_job_name(j.name), j)
                 ELSE earlier

\* {normalize_job_name(j.name): j for j in jobs if j.completed_at}: entries are
\* written in the order of jobs, a later one replacing an earlier one
RECURSIVE jobs_by_name(_)
jobs_by_name(jobs) ==
    IF Len(jobs) = 0 THEN << >>
    ELSE LET earlier == jobs_by_name(SubSeq(jobs, 1, Len(jobs) - 1))
             j == jobs[Len(jobs)]
         IN  IF IsSet(j.completed_at)
                 THEN dict_put(earlier, normalize_job_name(j.name), j)
                 ELSE earlier

\* the wall time measured from the latest created_at
get_wall_time_from_latest(run) ==
    LET jobs == SelectSeq(run.jobs, LAMBDA j : IsSet(j.completed_at)) IN
    IF jobs = << >> THEN 0
    ELSE MaxOf([k \in 1..Len(jobs) |-> Completed(jobs[k])])
             - MaxOf([k \in 1..Len(jobs) |-> Created(jobs[k])])

get_wall_time(run) ==
    LET jobs == SelectSeq(run.jobs, LAMBDA j : IsSet(j.completed_at)) IN
    IF jobs = << >> THEN 0
    ELSE MaxOf([k \in 1..Len(jobs) |-> Completed(jobs[k])])
             - MinOf([k \in 1..Len(jobs) |-> Created(jobs[k])])

\* the tag with a delta of exactly 60 s counted as the same
delta_str_inclusive(run_delta) ==
    IF Abs(run_delta) <= 60 THEN SAME
    ELSE IF run_delta > 0 THEN <<"+">> \o format_duration(run_delta)
    ELSE <<"-">> \o format_duration(-run_delta)

\* the per-job delta tag
delta_str(run_delta) ==
    IF Abs(run_delta) < 60 THEN SAME
    ELSE IF run_delta > 0 THEN <<"+">> \o format_duration(run_delta)
    ELSE <<"-">> \o format_duration(-run_delta)

\* the job row of one name of all_job_names
diff_row(name, jobs1, jobs2, max_duration) ==
    LET short_name == Prefix(name, name_width - 2)
        bar(j) == render_job_bar(queue_duration_seconds(j), run_duration_seconds(j),
                                 max_duration, bar_width)
        time(j) == format_duration(total_duration_seconds(j))
    IN  IF name \in DOMAIN jobs1 /\ name \in DOMAIN jobs2
            THEN LET j1 == jobs1[name]
                     j2 == jobs2[name]
                     run_delta == run_duration_seconds(j2) - run_duration_seconds(j1)
                 IN  Line("job", <<short_name, bar(j1), time(j1), bar(j2), time(j2),
                                   delta_str(run_delta)>>)
        ELSE IF name \in DOMAIN jobs1
            THEN Line("job", <<short_name, bar(jobs1[name]), time(jobs1[name]), MISSING>>)
            ELSE Line("job", <<short_name, MISSING, bar(jobs2[name]), time(jobs2[name])>>)

\* '+' if delta > 0 else ''
plus_sign(delta) == IF delta > 0 THEN <<"+">> ELSE << >>

\* the lines with a total of exactly 60 s counted as a change
key_insight_inclusive(total_run_delta, total_queue_delta, wall_delta) ==
    (IF total_run_delta <= -60
        THEN <<Line("saved", <<format_duration(-total_run_delta)>>)>>
     ELSE IF total_run_delta >= 60
        THEN <<Line("spent_more", <<format_duration(total_run_delta)>>)>>
     ELSE <<Line("roughly_same", << >>)>>)
    \o
    (IF total_queue_delta >= 60
        THEN <<Line("queue_more", <<format_duration(total_queue_delta)>>)>>
     ELSE IF total_queue_delta <= -60
        THEN <<Line("queue_less", <<format_duration(-total_queue_delta)>>)>>
     ELSE << >>)
    \o
    (IF wall_delta > 0 /\ total_run_delta < 0
        THEN <<Line("blank", << >>), Line("despite_faster_builds", << >>)>>
     ELSE IF wall_delta < 0 /\ total_run_delta < 0
        THEN <<Line("blank", << >>), Line("savings_translated", << >>)>>
     ELSE << >>)

\* the KEY INSIGHT lines that follow the heading
key_insight(total_run_delta, total_queue_delta, wall_delta) ==
    (IF total_run_delta < -60
        THEN <<Line("saved", <<format_duration(-total_run_delta)>>)>>
     ELSE IF total_run_delta > 60
        THEN <<Line("spent_more", <<format_duration(total_run_delta)>>)>>
     ELSE <<Line("roughly_same", << >>)>>)
    \o
    (IF total_queue_delta > 60
        THEN <<Line("queue_more", <<format_duration(total_queue_delta)>>)>>
     ELSE IF total_queue_delta < -60
        THEN <<Line("queue_less", <<format_duration(-total_queue_delta)>>)>>
     ELSE << >>)
    \o
    (IF wall_delta > 0 /\ total_run_delta < 0
        THEN <<Line("blank", << >>), Line("despite_faster_builds", << >>)>>
     ELSE IF wall_delta < 0 /\ total_run_delta < 0
        THEN <<Line("blank", << >>), Line("savings_translated", << >>)>>
     ELSE << >>)

render_unified_diff(run1, run2, width) ==
    LET jobs1 == jobs_by_name(run1.jobs)
        jobs2 == jobs_by_name(run2.jobs)
        all_job_names == sorted((DOMAIN jobs1) \cup (DOMAIN jobs2))
        names == 1..Len(all_job_names)
        in1(n) == all_job_names[n] \in DOMAIN jobs1
        in2(n) == all_job_names[n] \in DOMAIN jobs2
        all_durations ==
            {total_duration_seconds(jobs1[a]) : a \in DOMAIN jobs1}
                \cup {total_duration_seconds(jobs2[a]) : a \in DOMAIN jobs2}
        max_duration ==
            IF all_durations = {} THEN 1
            ELSE CHOOSE d \in all_durations : \A e \in all_durations : d >= e
        run_delta(n) ==
            IF in1(n) /\ in2(n)
                THEN run_duration_seconds(jobs2[all_job_names[n]])
                         - run_duration_seconds(jobs1[all_job_names[n]])
                ELSE 0
        queue_delta(n) ==
            IF in1(n) /\ in2(n)
                THEN queue_duration_seconds(jobs2[all_job_names[n]])
                         - queue_duration_seconds(jobs1[all_job_names[n]])
                ELSE 0
        total_run_delta == SumOf([n \in names |-> run_delta(n)])
        total_queue_delta == SumOf([n \in names |-> queue_delta(n)])
        wall1 == get_wall_time(run1)
        wall2 == get_wall_time(run2)
        wall_delta == wall2 - wall1
        keys1 == sorted(DOMAIN jobs1)
        keys2 == sorted(DOMAIN jobs2)
        sum_run1 == SumOf([n \in 1..Len(keys1) |-> run_duration_seconds(jobs1[keys1[n]])])
        sum_run2 == SumOf([n \in 1..Len(keys2) |-> run_duration_seconds(jobs2[keys2[n]])])
        sum_queue1 == SumOf([n \in 1..Len(keys1) |-> queue_duration_seconds(jobs1[keys1[n]])])
        sum_queue2 == SumOf([n \in 1..Len(keys2) |-> queue_duration_seconds(jobs2[keys2[n]])])
    IN  <<Line("=", <<Repeat("=", width)>>),
          Line("comparing", <<Str(run1.id), Str(run2.id)>>),
          Line("=", <<Repeat("=", width)>>),
          Line("blank", << >>),
          Line("header", << >>),
          Line("-", <<Repeat("-", width)>>)>>
        \o [n \in names |-> diff_row(all_job_names[n], jobs1, jobs2, max_duration)]
        \o <<Line("-", <<Repeat("-", width)>>),
             Line("blank", << >>),
             Line("wall_clock", <<format_duration(wall1), format_duration(wall2),
                                  plus_sign(wall_delta), format_duration(Abs(wall_delta))>>),
             Line("sum_of_run_times", <<format_duration(sum_run1), format_duration(sum_run2),
                                        plus_sign(total_run_delta),
                                        format_duration(Abs(total_run_delta))>>),
             Line("sum_of_queue_times", <<format_duration(sum_queue1), format_duration(sum_queue2),
                                          plus_sign(total_queue_delta),
                                          format_duration(Abs(total_queue_delta))>>),
             Line("blank", << >>),
             Line("=", <<Repeat("=", width)>>),
             Line("key_insight", << >>)>>
        \o key_insight(total_run_delta, total_queue_delta, wall_delta)
        \o <<Line("=", <<Repeat("=", width)>>),
             Line("blank", << >>),
             Line("legend", << >>)>>

-----------------------------------------------------------------------------
(* Specification of calls of render_unified_diff *)

\* the number of jobs the two runs hold together
MaxDiffJobs == 4

\* the width given to the renderer
MaxDiffWidth == 2

NAME_BUILD == <<"b", "u", "i", "l", "d">>

NAME_MATRIX_TEST == <<"b", "u", "i", "l", "d", " ", "(", "u", "b", "u", "n", "t", "u", "-", "2", "2", ".", "0", "4", ",", " ", "t", "e", "s", "t", ")">>

NAME_GROUP_TEST == <<"c", "i", " ", "/", " ", "t", "e", "s", "t">>

\* The jobs of the runs: completed jobs of two normalized names ("build" and
\* "test", which two raw names share) whose run times differ by less than, exactly
\* and more than 60 s and whose queue times differ by up to 70 s, one of them
\* created 10 s after the others, and a job that has started and not completed.
DiffJobs ==
    {Job(NAME_BUILD, 0, Some(30), Some(150)),
     Job(NAME_BUILD, 0, Some(30), Some(80)),
     Job(NAME_BUILD, 10, Some(40), Some(140)),
     Job(NAME_MATRIX_TEST, 0, Some(30), Some(140)),
     Job(NAME_GROUP_TEST, 0, Some(100), Some(150)),
     Job(NAME_GROUP_TEST, 0, Some(100), None)}

InitDiff ==
    /\ pc = "call"
    /\ \E n1 \in 0..MaxDiffJobs :
       \E n2 \in 0..(MaxDiffJobs - n1) :
       \E jobs1 \in [1..n1 -> DiffJobs], jobs2 \in [1..n2 -> DiffJobs] :
          args = [fn |-> "render_unified_diff",
                  run1 |-> WorkflowRun(1, jobs1), run2 |-> WorkflowRun(2, jobs2),
                  width |-> MaxDiffWidth]
    /\ ret = << >>
    /\ raised = "none"
    /\ NoProcess

CallRenderUnifiedDiff ==
    /\ pc = "call"
    /\ args.fn = "render_unified_diff"
    /\ ret' = render_unified_diff(args.run1, args.run2, args.width)
    /\ pc' = "done"
    /\ UNCHANGED <<args, raised, process>>

NextDiff == CallRenderUnifiedDiff

SpecDiff == InitDiff /\ [][NextDiff]_vars

DiffDone == pc = "done" /\ args.fn = "render_unified_diff"

-----------------------------------------------------------------------------
(* The diff's rows and jobs, read from the arguments and the output *)

\* the normalized name of each raw name of the jobs
NormalizedName ==
    [raw \in {NAME_BUILD, NAME_MATRIX_TEST, NAME_GROUP_TEST} |-> normalize_job_name(raw)]

\* the normalized names of the run's jobs that have completed_at
CompletedNames(run) ==
    {NormalizedName[run.jobs[k].name] :
        k \in {i \in 1..Len(run.jobs) : run.jobs[i].completed_at # << >>}}

\* the run's job of a normalized name: the last completed one of that name
JobNamed(run, name) ==
    LET K == {i \in 1..Len(run.jobs) :
                 /\ run.jobs[i].completed_at # << >>
                 /\ NormalizedName[run.jobs[i].name] = name}
    IN  run.jobs[CHOOSE k \in K : \A i \in K : i <= k]

\* completed_at - started_at of a completed job, 0 when it never started
RunSecs(j) == IF j.started_at = << >> THEN 0 ELSE j.completed_at[1] - j.started_at[1]

\* started_at - created_at, 0 when the job never started
QueueSecs(j) == IF j.started_at = << >> THEN 0 ELSE j.started_at[1] - j.created_at

JobRows == SelectSeq(ret, LAMBDA l : l.kind = "job")

\* the position of a name in the lexicographic order of a set of names
Rank(name, S) == Cardinality({m \in S : StrLess(m, name)}) + 1

MissingOnRun1(row) == Len(row.cells) = 4 /\ row.cells[2] = MISSING

MissingOnRun2(row) == Len(row.cells) = 4 /\ row.cells[4] = MISSING

NoMissing(row) == Len(row.cells) = 6 /\ \A c \in 1..6 : row.cells[c] # MISSING

\* C4: render_unified_diff emits exactly one job row per name of the union of the
\* two runs' normalized completed-job names, in lexicographic order; the row has
\* "(missing)" on the run2 side iff the name is only in run1, on the run1 side iff
\* it is only in run2, and no "(missing)" iff it is in both.
C4_DiffRows ==
    DiffDone =>
        LET N1 == CompletedNames(args.run1)
            N2 == CompletedNames(args.run2)
            U == N1 \cup N2
        IN  /\ Len(JobRows) = Cardinality(U)
            /\ \A name \in U :
                 LET row == JobRows[Rank(name, U)] IN
                 /\ row.cells[1] = SubSeq(name, 1, Min(Len(name), 26))
                 /\ MissingOnRun2(row) <=> (name \in N1 \ N2)
                 /\ MissingOnRun1(row) <=> (name \in N2 \ N1)
                 /\ NoMissing(row) <=> (name \in N1 \cap N2)

\* run1 lists its "test" job before its "build" job and run2 has only "test":
\* the "build" row comes first, missing on the run2 side, then the full "test" row
C4_Witness ==
    /\ DiffDone
    /\ Len(args.run1.jobs) = 2
    /\ args.run1.jobs[1].name = NAME_MATRIX_TEST
    /\ args.run1.jobs[2].name = NAME_BUILD
    /\ CompletedNames(args.run2) = {<<"t", "e", "s", "t">>}
    /\ Len(JobRows) = 2
    /\ JobRows[1].cells[1] = NAME_BUILD
    /\ MissingOnRun2(JobRows[1])
    /\ NoMissing(JobRows[2])

\* the delta tag of the row of a name present in both runs
DeltaTag(name) ==
    JobRows[Rank(name, CompletedNames(args.run1) \cup CompletedNames(args.run2))].cells[6]

\* C5: for every name present in both runs, with run_delta = run2's run duration
\* minus run1's, the delta tag is "~same" iff |run_delta| < 60, else "+" and
\* format_duration(run_delta) when positive, "-" and format_duration(-run_delta)
\* when negative; identical timings give "~same", and build (queue 30 s, run 120 s)
\* against build (queue 30 s, run 50 s) gives "-1m10s".
C5_DeltaTag ==
    DiffDone =>
        \A name \in CompletedNames(args.run1) \cap CompletedNames(args.run2) :
            LET j1 == JobNamed(args.run1, name)
                j2 == JobNamed(args.run2, name)
                run_delta == RunSecs(j2) - RunSecs(j1)
                tag == DeltaTag(name)
            IN  /\ (tag = SAME) <=> (run_delta > -60 /\ run_delta < 60)
                /\ run_delta >= 60 => tag = <<"+">> \o format_duration(run_delta)
                /\ run_delta <= -60 => tag = <<"-">> \o format_duration(-run_delta)
                /\ (j1.created_at = j2.created_at /\ j1.started_at = j2.started_at
                      /\ j1.completed_at = j2.completed_at) => tag = SAME
                /\ (QueueSecs(j1) = 30 /\ RunSecs(j1) = 120
                      /\ QueueSecs(j2) = 30 /\ RunSecs(j2) = 50) =>
                       tag = <<"-", "1", "m", "1", "0", "s">>

\* the end-to-end scenario: run1 and run2 each hold the one job "build"
C5_Witness ==
    /\ DiffDone
    /\ args.run1.jobs = <<Job(NAME_BUILD, 0, <<30>>, <<150>>)>>
    /\ args.run2.jobs = <<Job(NAME_BUILD, 0, <<30>>, <<80>>)>>
    /\ Len(JobRows) = 1
    /\ JobRows[1].cells[6] = <<"-", "1", "m", "1", "0", "s">>

-----------------------------------------------------------------------------
(* The KEY INSIGHT block, read from the output *)

\* the lines between the "KEY INSIGHT:" heading and the rule that closes the block
InsightBlock ==
    LET h == CHOOSE i \in 1..Len(ret) : ret[i].kind = "key_insight"
        e == CHOOSE i \in (h + 1)..Len(ret) :
                 ret[i].kind = "=" /\ \A k \in (h + 1)..(i - 1) : ret[k].kind # "="
    IN  SubSeq(ret, h + 1, e - 1)

\* how many lines of a block are instances of a template
CountKind(block, kind) == Cardinality({i \in 1..Len(block) : block[i].kind = kind})

\* the text substituted into the one line of a template
TextOfKind(block, kind) ==
    block[CHOOSE i \in 1..Len(block) : block[i].kind = kind].cells[1]

\* the sum of run2's value minus run1's value over a set of names present in both
RECURSIVE RunDeltaOver(_)
RunDeltaOver(S) ==
    IF S = {} THEN 0
    ELSE LET name == CHOOSE n \in S : TRUE
         IN  RunSecs(JobNamed(args.run2, name)) - RunSecs(JobNamed(args.run1, name))
                 + RunDeltaOver(S \ {name})

RECURSIVE QueueDeltaOver(_)
QueueDeltaOver(S) ==
    IF S = {} THEN 0
    ELSE LET name == CHOOSE n \in S : TRUE
         IN  QueueSecs(JobNamed(args.run2, name)) - QueueSecs(JobNamed(args.run1, name))
                 + QueueDeltaOver(S \ {name})

InBothRuns == CompletedNames(args.run1) \cap CompletedNames(args.run2)

\* C8: in the KEY INSIGHT block exactly one build-time line is emitted: 'Run 2
\* saved ...' iff total_run_delta < -60, 'Run 2 spent ... MORE' iff
\* total_run_delta > 60, 'roughly the same' otherwise; a queue line is emitted iff
\* |total_queue_delta| > 60, 'BUT ... MORE' when positive and 'AND ... LESS' when
\* negative. For build (queue 30 s, run 120 s) against build (queue 30 s, run 50 s)
\* the block states that Run 2 saved 1m10s and has no queue line.
C8_KeyInsight ==
    DiffDone =>
        LET total_run_delta == RunDeltaOver(InBothRuns)
            total_queue_delta == QueueDeltaOver(InBothRuns)
            block == InsightBlock
            saved == CountKind(block, "saved")
            spent_more == CountKind(block, "spent_more")
            roughly_same == CountKind(block, "roughly_same")
            queue_more == CountKind(block, "queue_more")
            queue_less == CountKind(block, "queue_less")
        IN  /\ saved + spent_more + roughly_same = 1
            /\ (saved = 1) <=> (total_run_delta < -60)
            /\ (spent_more = 1) <=> (total_run_delta > 60)
            /\ (roughly_same = 1) <=> (total_run_delta >= -60 /\ total_run_delta <= 60)
            /\ saved = 1 => TextOfKind(block, "saved") = format_duration(-total_run_delta)
            /\ spent_more = 1 =>
                   TextOfKind(block, "spent_more") = format_duration(total_run_delta)
            /\ queue_more + queue_less <= 1
            /\ (queue_more = 1) <=> (total_queue_delta > 60)
            /\ (queue_less = 1) <=> (total_queue_delta < -60)
            /\ queue_more = 1 =>
                   TextOfKind(block, "queue_more") = format_duration(total_queue_delta)
            /\ queue_less = 1 =>
                   TextOfKind(block, "queue_less") = format_duration(-total_queue_delta)
            /\ (/\ Len(args.run1.jobs) = 1 /\ Len(args.run2.jobs) = 1
                /\ args.run1.jobs[1].name = args.run2.jobs[1].name
                /\ QueueSecs(args.run1.jobs[1]) = 30 /\ RunSecs(args.run1.jobs[1]) = 120
                /\ QueueSecs(args.run2.jobs[1]) = 30 /\ RunSecs(args.run2.jobs[1]) = 50) =>
                   /\ saved = 1
                   /\ TextOfKind(block, "saved") = <<"1", "m", "1", "0", "s">>
                   /\ queue_more = 0
                   /\ queue_less = 0

\* two names present in both runs: the run deltas -70 and -60 add up to a saving
\* of 2m10s, the queue deltas 0 and +70 to a 'BUT ... MORE' line of 1m10s
C8_Witness ==
    /\ DiffDone
    /\ Cardinality(InBothRuns) = 2
    /\ RunDeltaOver(InBothRuns) = -130
    /\ QueueDeltaOver(InBothRuns) = 70
    /\ CountKind(InsightBlock, "saved") = 1
    /\ TextOfKind(InsightBlock, "saved") = <<"2", "m", "1", "0", "s">>
    /\ CountKind(InsightBlock, "queue_more") = 1
    /\ TextOfKind(InsightBlock, "queue_more") = <<"1", "m", "1", "0", "s">>

-----------------------------------------------------------------------------
(* The jobs behind the rows, the bar scale and the sums *)

\* completed_at - created_at of a completed job
TotalSecs(j) == j.completed_at[1] - j.created_at

\* the sum of the values of a function with a finite domain
RECURSIVE SumFn(_)
SumFn(f) ==
    IF DOMAIN f = {} THEN 0
    ELSE LET x == CHOOSE y \in DOMAIN f : TRUE
         IN  f[x] + SumFn([y \in (DOMAIN f) \ {x} |-> f[y]])

SummaryRow(kind) == ret[CHOOSE i \in 1..Len(ret) : ret[i].kind = kind]

\* the scale of the bars: the longest total duration among the jobs the two
\* runs hold under their names, 1 when they hold none
BarScale ==
    LET D == {TotalSecs(JobNamed(args.run1, n)) : n \in CompletedNames(args.run1)}
               \cup {TotalSecs(JobNamed(args.run2, n)) : n \in CompletedNames(args.run2)}
    IN  IF D = {} THEN 1 ELSE CHOOSE d \in D : \A e \in D : d >= e

BarOf(j) == render_job_bar(QueueSecs(j), RunSecs(j), BarScale, bar_width)

\* some completed job of the run is listed before another completed job of the
\* same normalized name and has other timings
Shadowed(run) ==
    \E a, b \in 1..Len(run.jobs) :
        /\ a < b
        /\ run.jobs[a].completed_at # << >>
        /\ run.jobs[b].completed_at # << >>
        /\ NormalizedName[run.jobs[a].name] = NormalizedName[run.jobs[b].name]
        /\ run.jobs[a] # run.jobs[b]

\* the jobs a run holds under its names: the last completed job of each name
KeptJobs(run) == {JobNamed(run, n) : n \in CompletedNames(run)}

\* all the jobs of a run that have completed_at
CompletedJobs(run) ==
    {run.jobs[i] : i \in {k \in 1..Len(run.jobs) : run.jobs[k].completed_at # << >>}}

\* max(completed_at) - min(created_at) over a set of completed jobs, 0 over none
WallOver(J) ==
    IF J = {} THEN 0
    ELSE LET last == CHOOSE c \in {j.completed_at[1] : j \in J} :
                         \A j \in J : c >= j.completed_at[1]
             first == CHOOSE c \in {j.created_at : j \in J} :
                          \A j \in J : c <= j.created_at
         IN  last - first

\* there is one row per name of the two mappings, the bar and the time a run
\* shows on a row are those of its last completed job of the name, the bars are
\* scaled by the longest total duration among these last jobs, and the 'Sum of
\* run times' and 'Sum of queue times' columns add up these last jobs only
LastJobsShown ==
    LET N1 == CompletedNames(args.run1)
        N2 == CompletedNames(args.run2)
        U == N1 \cup N2
        sums1 == SummaryRow("sum_of_run_times")
        sums2 == SummaryRow("sum_of_queue_times")
    IN  /\ Len(JobRows) = Cardinality(U)
        /\ \A name \in U :
             LET row == JobRows[Rank(name, U)]
                 second == IF name \in N1 THEN 4 ELSE 3
             IN  /\ name \in N1 =>
                      /\ row.cells[2] = BarOf(JobNamed(args.run1, name))
                      /\ row.cells[3] =
                             format_duration(TotalSecs(JobNamed(args.run1, name)))
                 /\ name \in N2 =>
                      /\ row.cells[second] = BarOf(JobNamed(args.run2, name))
                      /\ row.cells[second + 1] =
                             format_duration(TotalSecs(JobNamed(args.run2, name)))
        /\ sums1.cells[1] =
               format_duration(SumFn([n \in N1 |-> RunSecs(JobNamed(args.run1, n))]))
        /\ sums1.cells[2] =
               format_duration(SumFn([n \in N2 |-> RunSecs(JobNamed(args.run2, n))]))
        /\ sums2.cells[1] =
               format_duration(SumFn([n \in N1 |-> QueueSecs(JobNamed(args.run1, n))]))
        /\ sums2.cells[2] =
               format_duration(SumFn([n \in N2 |-> QueueSecs(JobNamed(args.run2, n))]))


\* C11 as stated: each run's mapping holds exactly the normalized names of its
\* jobs with completed_at set and, under a shared name, the last such job; a job
\* without completed_at and an earlier job of a shared name contribute to no
\* row, no bar scale and no aggregate, the 'Wall clock' row included.
C11_EarlierJobsUnseen ==
    DiffDone =>
        /\ LastJobsShown
        /\ SummaryRow("wall_clock").cells[1] =
               format_duration(WallOver(KeptJobs(args.run1)))
        /\ SummaryRow("wall_clock").cells[2] =
               format_duration(WallOver(KeptJobs(args.run2)))

\* C11, amended: each run's mapping holds exactly the normalized names of its
\* jobs with completed_at set and, under a shared name, the last such job; a job
\* without completed_at and an earlier job of a shared name contribute to no job
\* row, no bar scale and no 'Sum of run times' or 'Sum of queue times' figure.
\* The 'Wall clock' row is taken over every job of the run with completed_at
\* set, earlier jobs of a shared name included.
C11_NameToJob ==
    DiffDone =>
        /\ LastJobsShown
        /\ SummaryRow("wall_clock").cells[1] =
               format_duration(WallOver(CompletedJobs(args.run1)))
        /\ SummaryRow("wall_clock").cells[2] =
               format_duration(WallOver(CompletedJobs(args.run2)))

\* run1 lists build (run 2m0s) and then build (run 50s), with a job that never
\* completed; run2 lists the matrix "test" job and then the grouped one: the
\* rows show 1m20s and 2m30s, the totals of the later jobs, and run1's wall
\* clock is the 2m30s of its earlier job
C11_Witness ==
    /\ DiffDone
    /\ Shadowed(args.run1)
    /\ Shadowed(args.run2)
    /\ args.run1.jobs = <<Job(NAME_BUILD, 0, <<30>>, <<150>>),
                          Job(NAME_BUILD, 0, <<30>>, <<80>>)>>
    /\ args.run2.jobs = <<Job(NAME_MATRIX_TEST, 0, <<30>>, <<140>>),
                          Job(NAME_GROUP_TEST, 0, <<100>>, <<150>>)>>
    /\ Len(JobRows) = 2
    /\ JobRows[1].cells[3] = <<"1", "m", "2", "0", "s">>
    /\ JobRows[2].cells[4] = <<"2", "m", "3", "0", "s">>
    /\ SummaryRow("sum_of_run_times").cells[1] = <<"5", "0", "s">>
    /\ SummaryRow("sum_of_run_times").cells[2] = <<"5", "0", "s">>
    /\ SummaryRow("wall_clock").cells[1] = <<"2", "m", "3", "0", "s">>

-----------------------------------------------------------------------------
(* The deltas of the summary *)

\* '+' before a positive delta, nothing before any other
SignOf(delta) == IF delta > 0 THEN <<"+">> ELSE << >>

\* C12: the aggregate run-duration delta and queue-duration delta are the sums
\* of (run2 value - run1 value) over exactly the names present in both runs, and
\* the wall-clock delta is wall2 - wall1, each wall time being the run's own
\* max(completed_at) - min(created_at) over its jobs with completed_at set, 0
\* when it has none: the summary rows print these walls, the sign and the
\* magnitude of the three deltas, and the cross-cutting KEY INSIGHT lines follow
\* the signs of the wall-clock and run deltas.
C12_Aggregates ==
    DiffDone =>
        LET total_run_delta == RunDeltaOver(InBothRuns)
            total_queue_delta == QueueDeltaOver(InBothRuns)
            wall1 == WallOver(CompletedJobs(args.run1))
            wall2 == WallOver(CompletedJobs(args.run2))
            wall_delta == wall2 - wall1
            walls == SummaryRow("wall_clock")
            runs == SummaryRow("sum_of_run_times")
            queues == SummaryRow("sum_of_queue_times")
            block == InsightBlock
        IN  /\ runs.cells[3] = SignOf(total_run_delta)
            /\ runs.cells[4] = format_duration(Abs(total_run_delta))
            /\ queues.cells[3] = SignOf(total_queue_delta)
            /\ queues.cells[4] = format_duration(Abs(total_queue_delta))
            /\ walls.cells[1] = format_duration(wall1)
            /\ walls.cells[2] = format_duration(wall2)
            /\ walls.cells[3] = SignOf(wall_delta)
            /\ walls.cells[4] = format_duration(Abs(wall_delta))
            /\ (CountKind(block, "despite_faster_builds") = 1)
                   <=> (wall_delta > 0 /\ total_run_delta < 0)
            /\ (CountKind(block, "savings_translated") = 1)
                   <=> (wall_delta < 0 /\ total_run_delta < 0)
            /\ CompletedJobs(args.run1) = {} => walls.cells[1] = <<"0", "s">>
            /\ CompletedJobs(args.run2) = {} => walls.cells[2] = <<"0", "s">>

\* run1 holds build (run 50s) and a "test" job run2 lacks, run2 holds the build
\* created at 10 s (run 1m40s): the run delta is +50s over "build" alone, the
\* walls are 2m20s and 2m10s
C12_Witness ==
    /\ DiffDone
    /\ args.run1.jobs = <<Job(NAME_BUILD, 0, <<30>>, <<80>>),
                          Job(NAME_MATRIX_TEST, 0, <<30>>, <<140>>)>>
    /\ args.run2.jobs = <<Job(NAME_BUILD, 10, <<40>>, <<140>>)>>
    /\ InBothRuns = {NAME_BUILD}
    /\ SummaryRow("sum_of_run_times").cells[3] = <<"+">>
    /\ SummaryRow("sum_of_run_times").cells[4] = <<"5", "0", "s">>
    /\ SummaryRow("sum_of_queue_times").cells[4] = <<"0", "s">>
    /\ SummaryRow("wall_clock").cells
           = <<<<"2", "m", "2", "0", "s">>, <<"2", "m", "1", "0", "s">>,
               << >>, <<"1", "0", "s">>>>

-----------------------------------------------------------------------------
(* The cross-cutting lines of the KEY INSIGHT block *)

\* how many cross-cutting lines the block holds
CrossCutting ==
    CountKind(InsightBlock, "despite_faster_builds")
        + CountKind(InsightBlock, "savings_translated")

\* C13: 'Despite faster builds, wall clock time increased ...' and 'Build time
\* savings translated to faster wall clock time.' are emitted only together with
\* the 'Run 2 saved ...' line, and the block never holds both 'Actual build
\* times are roughly the same.' and one of them.
C13_CrossCutting ==
    DiffDone =>
        /\ CrossCutting > 0 => CountKind(InsightBlock, "saved") = 1
        /\ ~(CountKind(InsightBlock, "roughly_same") > 0 /\ CrossCutting > 0)

\* What the program does guarantee: a cross-cutting line is never emitted with
\* 'Run 2 spent ... MORE', and at most one is emitted.
C13_CrossCuttingNeverWithMore ==
    DiffDone =>
        /\ CrossCutting <= 1
        /\ CrossCutting > 0 => CountKind(InsightBlock, "spent_more") = 0

-----------------------------------------------------------------------------
(* The summary rows, read back from the output *)

\* the seconds a printed duration below one hour stands for: "<s>s" or "<m>m<s>s"
SecondsShown(text) ==
    LET M == {i \in 1..Len(text) : text[i] = "m"} IN
    IF M = {} THEN NatVal(SubSeq(text, 1, Len(text) - 1))
    ELSE LET i == CHOOSE k \in M : TRUE
         IN  60 * NatVal(SubSeq(text, 1, i - 1))
                 + NatVal(SubSeq(text, i + 1, Len(text) - 1))

\* the delta a summary row prints is, in magnitude, the difference of the two
\* sums the row prints
RowConsistent(row) ==
    SecondsShown(row.cells[4])
        = Abs(SecondsShown(row.cells[2]) - SecondsShown(row.cells[1]))

\* C14: for any two runs, the delta printed on the 'Sum of run times' row equals
\* in magnitude the run2 column minus the run1 column of that row, and likewise
\* on the 'Sum of queue times' row, also when some names are in one run only.
C14_SummaryRows ==
    DiffDone =>
        /\ RowConsistent(SummaryRow("sum_of_run_times"))
        /\ RowConsistent(SummaryRow("sum_of_queue_times"))

\* What the program does guarantee: the rows are consistent when the two runs
\* hold the same names.
C14_SummaryRowsSameNames ==
    (DiffDone /\ CompletedNames(args.run1) = CompletedNames(args.run2)) =>
        /\ RowConsistent(SummaryRow("sum_of_run_times"))
        /\ RowConsistent(SummaryRow("sum_of_queue_times"))

-----------------------------------------------------------------------------
(* main: the command line program and the gh api it reads from *)

\* what a gh api invocation can come back with:
\*   "ok"       return code 0 and a JSON document of the endpoint's shape
\*   "blank"    return code 0 and nothing but white space on its output
\*   "garbage"  return code 0 and output that is not blank and not JSON
\*   "error"    a non-zero return code
OUTCOMES == {"ok", "blank", "garbage", "error"}

ERROR_RUNNING_GH_API == "Error running gh api: {result.stderr}"
TRACEBACK_JSON == "Traceback: json.decoder.JSONDecodeError"
TRACEBACK_KEY == "Traceback: KeyError"
NO_REPOSITORY == "Could not determine repository. Use --repo owner/repo"
NO_RUN_IDS == "No run IDs provided for --history. Use with --branch or --pr, or provide run IDs."
NO_RUNS_FOR_BRANCH == "No workflow runs found for branch {args.branch}"
NO_RUNS_FOR_PR == "No workflow runs found for PR #{args.pr}"
NO_RUNS_FOR_COMMIT == "No workflow runs found for commit {args.commit}"
FETCHING_RUN == "Fetching run #{run_id}..."
FETCHING_COMPARISON == "Fetching comparison run #{args.diff}..."
NO_RUNS_FOUND == "No runs found"
RUN_TABLE == "Run ID  Workflow  Status  Created ..."
USAGE == "usage: timeline.py ..."

RUNS_FOR_BRANCH == "actions/runs?branch={branch}&per_page={limit}"
RUNS_FOR_COMMIT == "actions/runs?head_sha={sha}"
PULL == "pulls/{pr_number}"
RUN_INFO == "actions/runs/{run_id}"
RUN_JOBS == "actions/runs/{run_id}/jobs"

\* run_gh_api: a non-zero return code is reported and ends the process; the
\* output is then parsed unless it is blank, and nothing catches the
\* exception json.loads raises
run_gh_api(outcome) ==
    CASE outcome = "error" ->
            [exits |-> TRUE, report |-> ERROR_RUNNING_GH_API, data |-> "none"]
      [] outcome = "garbage" ->
            [exits |-> TRUE, report |-> TRACEBACK_JSON, data |-> "none"]
      [] outcome = "blank" ->
            [exits |-> FALSE, report |-> "", data |-> "empty"]
      [] OTHER ->
            [exits |-> FALSE, report |-> "", data |-> "json"]

\* the run ids in runs_data.get("workflow_runs", []): none in an empty document
workflow_runs(data, count) ==
    IF data = "json" THEN [i \in 1..count |-> i] ELSE << >>

list_runs(runs_data) ==
    IF Len(runs_data) = 0 THEN NO_RUNS_FOUND ELSE RUN_TABLE

Invoke(endpoint, outcome, count) ==
    fetches' = Append(fetches,
        [endpoint |-> endpoint, outcome |-> outcome,
         count |-> IF outcome = "ok" THEN count ELSE 0])

exit_with(locals, code, out, err) ==
    /\ pc' = "exited"
    /\ local' = locals
    /\ exit_code' = Some(code)
    /\ stdout' = stdout \o out
    /\ stderr' = stderr \o err

sys_exit(code, out, err) ==
    exit_with(local, code, out, err)

goto(label, locals, err) ==
    /\ pc' = label
    /\ local' = locals
    /\ stderr' = stderr \o err
    /\ UNCHANGED <<stdout, exit_code>>

exit_no_runs_status_zero(message) ==
    sys_exit(0, << >>, <<message>>)

\* print(f"No workflow runs found for ...", file=sys.stderr); sys.exit(1)
exit_no_runs(message) ==
    sys_exit(1, << >>, <<message>>)

fetch_runs(run_ids, phase) ==
    [local EXCEPT !.run_ids = run_ids, !.phase = phase, !.run_data = "none"]

MaxRuns == 2

CommandLines ==
    [repo : BOOLEAN,
     list : BOOLEAN,
     history : {None} \cup {Some([i \in 1..n |-> i]) : n \in 0..MaxRuns},
     run_id : {None, Some(1)},
     pr : {None, Some(7)},
     branch : {None, Some("feature")},
     commit : {None, Some("abc123")},
     diff : {None, Some(9)},
     compare : BOOLEAN]

InitMain ==
    /\ pc = "main"
    /\ args \in CommandLines
    /\ ret = << >>
    /\ raised = "none"
    /\ local = [repo |-> None, run_ids |-> << >>, runs |-> << >>,
                run_data |-> "none", phase |-> "none"]
    /\ fetches = << >>
    /\ stdout = << >>
    /\ stderr = << >>
    /\ exit_code = None

\* main() from the parsed command line to its first gh api invocation
Main ==
    /\ pc = "main"
    /\ \E resolved \in BOOLEAN :
        LET repo == IF args.repo THEN Some("--repo")
                    ELSE IF resolved THEN Some("gh repo view")
                    ELSE None
            found == [local EXCEPT !.repo = repo]
        IN  IF ~IsSet(repo)
            THEN sys_exit(1, << >>, <<NO_REPOSITORY>>)
            ELSE IF args.list
            THEN goto(IF IsSet(args.branch) THEN "list_branch"
                      ELSE IF IsSet(args.pr) THEN "list_pr_pulls"
                      ELSE "list_main", found, << >>)
            ELSE IF IsSet(args.history)
            THEN IF Len(args.history[1]) > 0
                 THEN goto("run_info",
                           [found EXCEPT !.run_ids = args.history[1],
                                         !.phase = "history"], << >>)
                 ELSE IF IsSet(args.branch)
                 THEN goto("history_branch", found, << >>)
                 ELSE IF IsSet(args.pr)
                 THEN goto("history_pr_pulls", found, << >>)
                 ELSE exit_with(found, 1, << >>, <<NO_RUN_IDS>>)
            ELSE IF IsSet(args.run_id)
            THEN goto("run_info",
                      [found EXCEPT !.run_ids = <<args.run_id[1]>>,
                                    !.phase = "default"], << >>)
            ELSE IF IsSet(args.pr)
            THEN goto("pr_pulls", found, << >>)
            ELSE IF IsSet(args.branch)
            THEN goto("branch_runs", found, << >>)
            ELSE IF IsSet(args.commit)
            THEN goto("commit_runs", found, << >>)
            ELSE exit_with(found, 1, <<USAGE>>, << >>)
    /\ UNCHANGED <<args, ret, raised, fetches>>

\* --list --branch
ListBranch ==
    /\ pc = "list_branch"
    /\ \E outcome \in OUTCOMES, count \in 0..MaxRuns :
        LET r == run_gh_api(outcome)
            runs_data == workflow_runs(r.data, count)
        IN  /\ Invoke(RUNS_FOR_BRANCH, outcome, count)
            /\ IF r.exits
               THEN sys_exit(1, << >>, <<r.report>>)
               ELSE sys_exit(0, <<"Recent runs for branch '{args.branch}':",
                                  list_runs(runs_data)>>, << >>)
    /\ UNCHANGED <<args, ret, raised>>

\* --list --pr: the pull request, then the runs of its head commit
ListPrPulls ==
    /\ pc = "list_pr_pulls"
    /\ \E outcome \in OUTCOMES :
        LET r == run_gh_api(outcome)
        IN  /\ Invoke(PULL, outcome, 0)
            /\ IF r.exits
               THEN sys_exit(1, << >>, <<r.report>>)
               ELSE IF r.data = "empty"
               THEN sys_exit(1, << >>, <<TRACEBACK_KEY>>)
               ELSE goto("list_pr_runs", local, << >>)
    /\ UNCHANGED <<args, ret, raised>>

ListPrRuns ==
    /\ pc = "list_pr_runs"
    /\ \E outcome \in OUTCOMES, count \in 0..MaxRuns :
        LET r == run_gh_api(outcome)
            runs_data == workflow_runs(r.data, count)
        IN  /\ Invoke(RUNS_FOR_COMMIT, outcome, count)
            /\ IF r.exits
               THEN sys_exit(1, << >>, <<r.report>>)
               ELSE sys_exit(0, <<"Runs for PR #{args.pr} (head: {head_sha[:8]}):",
                                  list_runs(runs_data)>>, << >>)
    /\ UNCHANGED <<args, ret, raised>>

\* --list alone: the runs of main, and of master when main has none
ListMain ==
    /\ pc = "list_main"
    /\ \E outcome \in OUTCOMES, count \in 0..MaxRuns :
        LET r == run_gh_api(outcome)
            runs_data == workflow_runs(r.data, count)
        IN  /\ Invoke(RUNS_FOR_BRANCH, outcome, count)
            /\ IF r.exits
               THEN sys_exit(1, << >>, <<r.report>>)
               ELSE IF Len(runs_data) = 0
               THEN goto("list_master", local, << >>)
               ELSE sys_exit(0, <<"Recent runs:", list_runs(runs_data)>>, << >>)
    /\ UNCHANGED <<args, ret, raised>>

ListMaster ==
    /\ pc = "list_master"
    /\ \E outcome \in OUTCOMES, count \in 0..MaxRuns :
        LET r == run_gh_api(outcome)
            runs_data == workflow_runs(r.data, count)
        IN  /\ Invoke(RUNS_FOR_BRANCH, outcome, count)
            /\ IF r.exits
               THEN sys_exit(1, << >>, <<r.report>>)
               ELSE sys_exit(0, <<"Recent runs:", list_runs(runs_data)>>, << >>)
    /\ UNCHANGED <<args, ret, raised>>

\* --history without run ids, --branch
HistoryBranch ==
    /\ pc = "history_branch"
    /\ \E outcome \in OUTCOMES, count \in 0..MaxRuns :
        LET r == run_gh_api(outcome)
            runs_data == workflow_runs(r.data, count)
        IN  /\ Invoke(RUNS_FOR_BRANCH, outcome, count)
            /\ IF r.exits
               THEN sys_exit(1, << >>, <<r.report>>)
               ELSE IF Len(runs_data) = 0
               THEN exit_no_runs(NO_RUNS_FOR_BRANCH)
               ELSE goto("run_info", fetch_runs(runs_data, "history"), << >>)
    /\ UNCHANGED <<args, ret, raised>>

\* --history without run ids, --pr
HistoryPrPulls ==
    /\ pc = "history_pr_pulls"
    /\ \E outcome \in OUTCOMES :
        LET r == run_gh_api(outcome)
        IN  /\ Invoke(PULL, outcome, 0)
            /\ IF r.exits
               THEN sys_exit(1, << >>, <<r.report>>)
               ELSE IF r.data = "empty"
               THEN sys_exit(1, << >>, <<TRACEBACK_KEY>>)
               ELSE goto("history_pr_runs", local, << >>)
    /\ UNCHANGED <<args, ret, raised>>

HistoryPrRuns ==
    /\ pc = "history_pr_runs"
    /\ \E outcome \in OUTCOMES, count \in 0..MaxRuns :
        LET r == run_gh_api(outcome)
            runs_data == workflow_runs(r.data, count)
        IN  /\ Invoke(RUNS_FOR_COMMIT, outcome, count)
            /\ IF r.exits
               THEN sys_exit(1, << >>, <<r.report>>)
               ELSE IF Len(runs_data) = 0
               THEN exit_no_runs(NO_RUNS_FOR_PR)
               ELSE goto("run_info", fetch_runs(runs_data, "history"), << >>)
    /\ UNCHANGED <<args, ret, raised>>

\* get_runs_for_pr: the pull request, then get_runs_for_commit on its head
get_runs_for_pr ==
    /\ pc = "pr_pulls"
    /\ \E outcome \in OUTCOMES :
        LET r == run_gh_api(outcome)
        IN  /\ Invoke(PULL, outcome, 0)
            /\ IF r.exits
               THEN sys_exit(1, << >>, <<r.report>>)
               ELSE IF r.data = "empty"
               THEN sys_exit(1, << >>, <<TRACEBACK_KEY>>)
               ELSE goto("pr_runs", local, << >>)
    /\ UNCHANGED <<args, ret, raised>>

\* get_runs_for_commit, called for --pr (through get_runs_for_pr) or --commit
get_runs_for_commit ==
    /\ pc \in {"pr_runs", "commit_runs"}
    /\ \E outcome \in OUTCOMES, count \in 0..MaxRuns :
        LET r == run_gh_api(outcome)
            run_ids == workflow_runs(r.data, count)
        IN  /\ Invoke(RUNS_FOR_COMMIT, outcome, count)
            /\ IF r.exits
               THEN sys_exit(1, << >>, <<r.report>>)
               ELSE IF Len(run_ids) = 0
               THEN exit_no_runs(IF pc = "pr_runs" THEN NO_RUNS_FOR_PR
                                 ELSE NO_RUNS_FOR_COMMIT)
               ELSE goto("run_info", fetch_runs(run_ids, "default"), << >>)
    /\ UNCHANGED <<args, ret, raised>>

\* get_runs_for_branch(args.branch, repo, 1): the first run listed is taken
get_runs_for_branch ==
    /\ pc = "branch_runs"
    /\ \E outcome \in OUTCOMES, count \in 0..MaxRuns :
        LET r == run_gh_api(outcome)
            runs_data == workflow_runs(r.data, count)
        IN  /\ Invoke(RUNS_FOR_BRANCH, outcome, count)
            /\ IF r.exits
               THEN sys_exit(1, << >>, <<r.report>>)
               ELSE IF Len(runs_data) = 0
               THEN exit_no_runs(NO_RUNS_FOR_BRANCH)
               ELSE goto("run_info", fetch_runs(<<runs_data[1]>>, "default"),
                         << >>)
    /\ UNCHANGED <<args, ret, raised>>

\* get_run_details, first half: the progress line and the run's document
get_run_info ==
    /\ pc = "run_info"
    /\ \E outcome \in OUTCOMES :
        LET r == run_gh_api(outcome)
            progress == IF local.phase = "diff" THEN FETCHING_COMPARISON
                        ELSE FETCHING_RUN
        IN  /\ Invoke(RUN_INFO, outcome, 0)
            /\ IF r.exits
               THEN sys_exit(1, << >>, <<progress, r.report>>)
               ELSE goto("run_jobs", [local EXCEPT !.run_data = r.data],
                         <<progress>>)
    /\ UNCHANGED <<args, ret, raised>>

\* what main() prints once every run is fetched
render_runs(runs) ==
    IF args.compare \/ Len(runs) > 1
    THEN <<"render_comparison", "">>
         \o [k \in 1..(2 * Len(runs)) |->
                IF k % 2 = 1 THEN "render_single_run" ELSE ""]
    ELSE <<"render_single_run">>

\* get_run_details, second half: the run's jobs, the WorkflowRun built of
\* both documents, and main()'s loop around it
get_run_jobs ==
    /\ pc = "run_jobs"
    /\ \E outcome \in OUTCOMES :
        LET r == run_gh_api(outcome)
            run == Head(local.run_ids)
            rest == Tail(local.run_ids)
            runs == Append(local.runs, run)
        IN  /\ Invoke(RUN_JOBS, outcome, 0)
            /\ IF r.exits
               THEN sys_exit(1, << >>, <<r.report>>)
               ELSE IF local.run_data = "empty"
               THEN sys_exit(1, << >>, <<TRACEBACK_KEY>>)
               ELSE IF local.phase = "diff"
               THEN sys_exit(0, <<"render_unified_diff">>, << >>)
               ELSE IF Len(rest) > 0
               THEN goto("run_info",
                         [local EXCEPT !.runs = runs, !.run_ids = rest,
                                       !.run_data = "none"], << >>)
               ELSE IF local.phase = "history"
               THEN sys_exit(0, <<"render_history">>, << >>)
               ELSE IF IsSet(args.diff)
               THEN goto("run_info",
                         [local EXCEPT !.runs = runs,
                                       !.run_ids = <<args.diff[1]>>,
                                       !.run_data = "none",
                                       !.phase = "diff"], << >>)
               ELSE sys_exit(0, render_runs(runs), << >>)
    /\ UNCHANGED <<args, ret, raised>>

NextMain ==
    \/ Main
    \/ ListBranch
    \/ ListPrPulls
    \/ ListPrRuns
    \/ ListMain
    \/ ListMaster
    \/ HistoryBranch
    \/ HistoryPrPulls
    \/ HistoryPrRuns
    \/ get_runs_for_pr
    \/ get_runs_for_commit
    \/ get_runs_for_branch
    \/ get_run_info
    \/ get_run_jobs

SpecMain == InitMain /\ [][NextMain]_vars


-----------------------------------------------------------------------------
(* main: failing fetches and empty selectors *)

Exited == pc = "exited"

LastReport == stderr[Len(stderr)]

\* the invocation came back with a non-zero return code, or with output that
\* is not a JSON document
FetchFailed(f) == f.outcome \in {"error", "garbage", "blank"}

\* C6: whenever a gh api invocation fails (non-zero exit status or non-JSON
\* output), the process exits with status 1, reports the raw error text,
\* issues no further invocation and has written nothing to standard output.
C6_FetchFailure ==
    \A i \in 1..Len(fetches) :
        FetchFailed(fetches[i]) =>
            /\ i = Len(fetches)
            /\ Exited
            /\ exit_code = Some(1)
            /\ stdout = << >>
            /\ Len(stderr) > 0
            /\ LastReport = ERROR_RUNNING_GH_API

\* What the program does guarantee on a non-zero return code: all of the above.
C6_NonZeroReturnCode ==
    \A i \in 1..Len(fetches) :
        fetches[i].outcome = "error" =>
            /\ i = Len(fetches)
            /\ Exited
            /\ exit_code = Some(1)
            /\ stdout = << >>
            /\ Len(stderr) > 0
            /\ LastReport = ERROR_RUNNING_GH_API

\* What the program does guarantee on output that is neither blank nor JSON:
\* status 1, no further invocation, nothing on standard output; the report is
\* the interpreter's traceback.
C6_NotJson ==
    \A i \in 1..Len(fetches) :
        fetches[i].outcome = "garbage" =>
            /\ i = Len(fetches)
            /\ Exited
            /\ exit_code = Some(1)
            /\ stdout = << >>
            /\ Len(stderr) > 0
            /\ LastReport = TRACEBACK_JSON

\* the mode under way consults a selector of the command line
SelectorUsed ==
    IF args.list
    THEN IsSet(args.branch) \/ IsSet(args.pr)
    ELSE IF IsSet(args.history)
    THEN Len(args.history[1]) = 0 /\ (IsSet(args.branch) \/ IsSet(args.pr))
    ELSE /\ ~IsSet(args.run_id)
         /\ IsSet(args.pr) \/ IsSet(args.branch) \/ IsSet(args.commit)

\* a listing of runs that came back well formed and empty
ZeroRuns(f) ==
    /\ f.endpoint \in {RUNS_FOR_BRANCH, RUNS_FOR_COMMIT}
    /\ f.outcome = "ok"
    /\ f.count = 0

ResolvedToZero ==
    /\ SelectorUsed
    /\ \E i \in 1..Len(fetches) : ZeroRuns(fetches[i])

RepoUnresolved == Exited /\ ~IsSet(local.repo)

NoRunIdNorSelector ==
    /\ Exited
    /\ IsSet(local.repo)
    /\ ~args.list
    /\ ~IsSet(args.history)
    /\ ~IsSet(args.run_id)
    /\ ~IsSet(args.pr)
    /\ ~IsSet(args.branch)
    /\ ~IsSet(args.commit)

NoRunsMessages == {NO_RUNS_FOR_BRANCH, NO_RUNS_FOR_PR, NO_RUNS_FOR_COMMIT}

\* C7 as stated: in --list, --history and default mode alike, a selector
\* that resolves to zero runs ends the process with status 1 and a message;
\* so do an unresolvable repository and a default mode without run id or
\* selector.
C7_EmptySelector ==
    /\ ResolvedToZero =>
            /\ Exited
            /\ exit_code = Some(1)
            /\ Len(stderr) > 0
    /\ RepoUnresolved => exit_code = Some(1)
    /\ NoRunIdNorSelector => exit_code = Some(1)

\* C7, amended: a selector that resolves to zero runs ends the process at
\* once: in --history and default mode with status 1 and a "No workflow runs
\* found" message on standard error and nothing on standard output; in
\* --list mode with status 0 after printing "No runs found" to standard
\* output.  An unresolvable repository ends it with status 1 before any
\* invocation, and so does a default mode without run id or selector.
C7_EmptySelectorByMode ==
    /\ \A i \in 1..Len(fetches) :
            (SelectorUsed /\ ZeroRuns(fetches[i])) =>
                /\ i = Len(fetches)
                /\ Exited
                /\ IF args.list
                   THEN /\ exit_code = Some(0)
                        /\ stdout[Len(stdout)] = NO_RUNS_FOUND
                        /\ stderr = << >>
                   ELSE /\ exit_code = Some(1)
                        /\ stdout = << >>
                        /\ Len(stderr) > 0
                        /\ LastReport \in NoRunsMessages
    /\ RepoUnresolved =>
            /\ exit_code = Some(1)
            /\ stderr = <<NO_REPOSITORY>>
            /\ stdout = << >>
            /\ fetches = << >>
    /\ NoRunIdNorSelector =>
            /\ exit_code = Some(1)
            /\ fetches = << >>

\* --history --pr 7 with no run ids: the pull request is found, its head
\* commit has no runs, and the process has ended
C7_Witness ==
    /\ Exited
    /\ ~args.list
    /\ args.history = Some(<< >>)
    /\ ~IsSet(args.branch)
    /\ IsSet(args.pr)
    /\ Len(fetches) = 2
    /\ ZeroRuns(fetches[2])
    /\ exit_code = Some(1)
    /\ stderr = <<NO_RUNS_FOR_PR>>

====
